---- MODULE Spec2Model ----
(***************************************************************************)
(* Rule-based fraud risk scoring of procurement contract records           *)
(* (features/fraud_checks.py: score_risk and its helpers).                 *)
(*                                                                         *)
(* Conventions of the model                                                *)
(*  - A cell of a DataFrame is a record [k, n, s]: k is the Python type of *)
(*    the object row.get returns ("None", "nan" for a float NaN, "num",    *)
(*    "bool", "str"), n its numeric value, s its text.                     *)
(*  - Text is a sequence of pieces.  Text read from the data is spelled    *)
(*    character by character so that strip() and lower() act on it; the    *)
(*    constant reason and label texts of the code are single pieces.       *)
(*    The reason texts write "<=" and ">=" for the source's one-character  *)
(*    signs.                                                               *)
(*  - Floats are integer valued; a percentage ((x - base) / base) * 100 is *)
(*    compared exactly (cross-multiplied), IEEE rounding is not modelled.  *)
(*  - Every non-degenerate frame carries the text column "vendor" that     *)
(*    load_data always creates, so a row handed to _score_row is of dtype  *)
(*    object and its cells are Python objects (not numpy scalars).         *)
(***************************************************************************)
EXTENDS Integers, Sequences, FiniteSets, TLC

VARIABLES df, out, pc

vars == <<df, out, pc>>

(***************************************************************************)
(* Cells                                                                   *)
(***************************************************************************)
NoneCell == [k |-> "None", n |-> 0, s |-> <<>>]
NaNCell == [k |-> "nan", n |-> 0, s |-> <<>>]
Num(x) == [k |-> "num", n |-> x, s |-> <<>>]
Bool(b) == [k |-> "bool", n |-> IF b THEN 1 ELSE 0, s |-> <<>>]
Str(t) == [k |-> "str", n |-> 0, s |-> t]

(* row.get(column, default): None (or the default) for a column the frame does not have *)
Get(row, column, default) == IF column \in DOMAIN row THEN row[column] ELSE default

(***************************************************************************)
(* Text helpers: str.strip, str.lower, str(value), float(text)             *)
(***************************************************************************)
Whitespace == {" ", "\t"}

Upper == [c \in {"A","B","C","D","E","F","G","H","I","J","K","L","M","N","O","P","Q","R","S","T","U","V","W","X","Y","Z"} |->
            CASE c = "A" -> "a" [] c = "B" -> "b" [] c = "C" -> "c" [] c = "D" -> "d"
              [] c = "E" -> "e" [] c = "F" -> "f" [] c = "G" -> "g" [] c = "H" -> "h"
              [] c = "I" -> "i" [] c = "J" -> "j" [] c = "K" -> "k" [] c = "L" -> "l"
              [] c = "M" -> "m" [] c = "N" -> "n" [] c = "O" -> "o" [] c = "P" -> "p"
              [] c = "Q" -> "q" [] c = "R" -> "r" [] c = "S" -> "s" [] c = "T" -> "t"
              [] c = "U" -> "u" [] c = "V" -> "v" [] c = "W" -> "w" [] c = "X" -> "x"
              [] c = "Y" -> "y" [] c = "Z" -> "z"]

Lower(t) == [i \in 1..Len(t) |-> IF t[i] \in DOMAIN Upper THEN Upper[t[i]] ELSE t[i]]

RECURSIVE LStrip(_)
LStrip(t) == IF t # <<>> /\ Head(t) \in Whitespace THEN LStrip(Tail(t)) ELSE t

RECURSIVE RStrip(_)
RStrip(t) == IF t # <<>> /\ t[Len(t)] \in Whitespace THEN RStrip(SubSeq(t, 1, Len(t) - 1)) ELSE t

Strip(t) == RStrip(LStrip(t))

Digits == [c \in {"0","1","2","3","4","5","6","7","8","9"} |->
            CASE c = "0" -> 0 [] c = "1" -> 1 [] c = "2" -> 2 [] c = "3" -> 3 [] c = "4" -> 4
              [] c = "5" -> 5 [] c = "6" -> 6 [] c = "7" -> 7 [] c = "8" -> 8 [] c = "9" -> 9]

DigitChar == <<"0","1","2","3","4","5","6","7","8","9">>

RECURSIVE DigitsValue(_)
DigitsValue(t) == IF t = <<>> THEN 0 ELSE 10 * DigitsValue(SubSeq(t, 1, Len(t) - 1)) + Digits[t[Len(t)]]

AllDigits(t) == t # <<>> /\ \A i \in 1..Len(t) : t[i] \in DOMAIN Digits

RECURSIVE NatText(_)
NatText(x) == IF x < 10 THEN <<DigitChar[x + 1]>> ELSE NatText(x \div 10) \o <<DigitChar[(x % 10) + 1]>>

(* str(value) of a cell *)
StrOf(cell) ==
    CASE cell.k = "str" -> cell.s
      [] cell.k = "None" -> <<"N","o","n","e">>
      [] cell.k = "nan" -> <<"n","a","n">>
      [] cell.k = "bool" -> IF cell.n = 1 THEN <<"T","r","u","e">> ELSE <<"F","a","l","s","e">>
      [] cell.k = "num" -> IF cell.n < 0 THEN <<"-">> \o NatText(-cell.n) ELSE NatText(cell.n)

(***************************************************************************)
(* Extracted numbers: None, a float NaN, or a float                        *)
(***************************************************************************)
None == [t |-> "None", v |-> 0]
NaN == [t |-> "nan", v |-> 0]
Float(x) == [t |-> "float", v |-> x]

(* float(text): surrounding whitespace is ignored, an optional sign, then  *)
(* digits, or the word nan in any case; None stands for ValueError.        *)
ParseFloat(text) ==
    LET t == Strip(text)
        body == IF t # <<>> /\ Head(t) \in {"+", "-"} THEN Tail(t) ELSE t
        neg == t # <<>> /\ Head(t) = "-"
    IN  IF AllDigits(body) THEN Float(IF neg THEN -DigitsValue(body) ELSE DigitsValue(body))
        ELSE IF Lower(body) = <<"n","a","n">> THEN NaN
        ELSE None

(* bool(x) of an extracted number: NaN and every non-zero number are true *)
Truthy(x) == x.t = "nan" \/ (x.t = "float" /\ x.v # 0)

(* comparisons of floats: every comparison with NaN is false *)
Le(x, c) == x.t = "float" /\ x.v <= c
Ge(x, c) == x.t = "float" /\ x.v >= c
Lt(x, c) == x.t = "float" /\ x.v < c

Abs(x) == IF x.t = "float" /\ x.v < 0 THEN Float(-x.v) ELSE x

(* ((x - base) / base) * 100 >= p, for a base that is not 0 *)
PctGe(x, base, p) ==
    /\ x.t = "float" /\ base.t = "float"
    /\ \/ base.v > 0 /\ (x.v - base.v) * 100 >= p * base.v
       \/ base.v < 0 /\ (x.v - base.v) * 100 <= p * base.v

(* ((x - base) / base) * 100 <= p, for a base that is not 0 *)
PctLe(x, base, p) ==
    /\ x.t = "float" /\ base.t = "float"
    /\ \/ base.v > 0 /\ (x.v - base.v) * 100 <= p * base.v
       \/ base.v < 0 /\ (x.v - base.v) * 100 >= p * base.v

(***************************************************************************)
(* _risk_level                                                             *)
(***************************************************************************)
RISK_LEVEL_THRESHOLDS == << <<70, "Critical">>, <<45, "High">>, <<25, "Medium">>, <<0, "Low">> >>

RECURSIVE risk_level_above(_, _)
(* mutant: the thresholds compared with > instead of >= *)
risk_level_above(score, i) ==
    IF i > Len(RISK_LEVEL_THRESHOLDS) THEN "Low"
    ELSE IF score > RISK_LEVEL_THRESHOLDS[i][1] THEN RISK_LEVEL_THRESHOLDS[i][2]
    ELSE risk_level_above(score, i + 1)

RECURSIVE risk_level_from(_, _)
risk_level_from(score, i) ==
    IF i > Len(RISK_LEVEL_THRESHOLDS) THEN "Low"
    ELSE IF score >= RISK_LEVEL_THRESHOLDS[i][1] THEN RISK_LEVEL_THRESHOLDS[i][2]
    ELSE risk_level_from(score, i + 1)

risk_level(score) == risk_level_from(score, 1)

(***************************************************************************)
(* _get_numeric, _get_bool                                                 *)
(***************************************************************************)
(* mutant: float(value) outside the try block, the ValueError of unparseable text escapes *)
get_numeric_unguarded(row, column) ==
    LET value == Get(row, column, NoneCell)
    IN  CASE value.k = "None" -> None
          [] value.k = "nan" -> None
          [] value.k = "num" -> Float(value.n)
          [] value.k = "bool" -> Float(value.n)
          [] value.k = "str" -> IF ParseFloat(value.s) = None THEN [t |-> "ValueError", v |-> 0]
                                ELSE ParseFloat(value.s)

(* mutant: a missing value is filled with 0 instead of being left out *)
get_numeric_fill_zero(row, column) ==
    LET value == Get(row, column, NoneCell)
    IN  CASE value.k = "None" -> Float(0)
          [] value.k = "nan" -> Float(0)
          [] value.k = "num" -> Float(value.n)
          [] value.k = "bool" -> Float(value.n)
          [] value.k = "str" -> IF ParseFloat(value.s) = None THEN Float(0) ELSE ParseFloat(value.s)

get_numeric(row, column) ==
    LET value == Get(row, column, NoneCell)
    IN  CASE value.k = "None" -> None
          [] value.k = "nan" -> None
          [] value.k = "num" -> Float(value.n)
          [] value.k = "bool" -> Float(value.n)
          [] value.k = "str" -> ParseFloat(value.s)

BoolWords == { <<"t","r","u","e">>, <<"1">>, <<"y","e","s">>, <<"y">> }

get_bool(row, column) ==
    LET value == Get(row, column, NoneCell)
    IN  CASE value.k = "bool" -> value.n = 1
          [] value.k \in {"num", "nan"} -> value.k = "nan" \/ value.n # 0
          [] value.k = "str" -> Lower(Strip(value.s)) \in BoolWords
          [] OTHER -> FALSE

(***************************************************************************)
(* score_risk._score_row                                                   *)
(***************************************************************************)
NoRedFlags == "No apparent red flags"

(* the reason of rule 1..17, in the order the code evaluates the rules *)
Reason == <<
    "Low bidder count (<=2)",
    "Limited bidder competition (<=4)",
    "Cost variance >=15% over estimate",
    "Cost variance <=-15% (aggressive underbid)",
    "Payment discrepancy >= NPR 1M",
    "Payment discrepancy >= NPR 500k",
    "Contract value >=25% above estimate",
    "Contract awarded >=20% below estimate",
    "Payments exceed contract amount by >=10%",
    "Payments lag contract amount by >=20%",
    "Marked completed with <80% progress",
    "Near completion but not closed",
    "Delayed with <50% progress",
    "Awarded to a red-flagged entity",
    "Blacklisted contractor involved",
    "High-value contract via limited competition method",
    "Short-form method used for long-duration contract" >>

(* score = 0; reasons = [] *)
Fresh == [score |-> 0, reasons |-> <<>>]

(* mutant: the reason is put in front of the earlier ones *)
add_in_front(acc, points, reason) == [score |-> acc.score + points, reasons |-> <<reason>> \o acc.reasons]

(* mutant: the points are added and the reason is not recorded *)
add_points_only(acc, points, reason) == [score |-> acc.score + points, reasons |-> acc.reasons]

(* the closure add(points, reason) *)
add(acc, points, reason) == [score |-> acc.score + points, reasons |-> Append(acc.reasons, reason)]

Completed == <<"c","o","m","p","l","e","t","e","d">>
InProgress == <<"i","n","-","p","r","o","g","r","e","s","s">>
Delayed == <<"d","e","l","a","y","e","d">>
Direct == <<"d","i","r","e","c","t">>
Shopping == <<"s","h","o","p","p","i","n","g">>
Rfq == <<"r","f","q">>

BidderRules(row, acc) ==
    LET bidder_count == get_numeric(row, "bidder_count")
    IN  IF bidder_count # None
        THEN IF Le(bidder_count, 2) THEN add(acc, 20, Reason[1])
             ELSE IF Le(bidder_count, 4) THEN add(acc, 10, Reason[2])
             ELSE acc
        ELSE acc

VarianceRules(row, acc) ==
    LET cost_variance == get_numeric(row, "cost_variance_pct")
        a1 == IF cost_variance # None /\ Ge(cost_variance, 15) THEN add(acc, 15, Reason[3]) ELSE acc
    IN  IF cost_variance # None /\ Le(cost_variance, -15) THEN add(a1, 10, Reason[4]) ELSE a1

(* mutant: the second threshold tested with if instead of elif *)
PaymentGapRules_two_ifs(row, acc) ==
    LET payment_gap == get_numeric(row, "payment_discrepancy")
        abs_gap == Abs(payment_gap)
        a1 == IF Ge(abs_gap, 1000000) THEN add(acc, 20, Reason[5]) ELSE acc
    IN  IF payment_gap # None
        THEN IF Ge(abs_gap, 500000) THEN add(a1, 12, Reason[6]) ELSE a1
        ELSE acc

PaymentGapRules(row, acc) ==
    LET payment_gap == get_numeric(row, "payment_discrepancy")
        abs_gap == Abs(payment_gap)
    IN  IF payment_gap # None
        THEN IF Ge(abs_gap, 1000000) THEN add(acc, 20, Reason[5])
             ELSE IF Ge(abs_gap, 500000) THEN add(acc, 12, Reason[6])
             ELSE acc
        ELSE acc

(* mutant: two separate tests, the second on the size of the deviation whatever its sign *)
EstimateRules_both(row, acc) ==
    LET contract_amount == get_numeric(row, "contract_amount")
        estimate == get_numeric(row, "estimatedCost")
        a1 == IF PctGe(contract_amount, estimate, 25) THEN add(acc, 10, Reason[7]) ELSE acc
    IN  IF Truthy(contract_amount) /\ Truthy(estimate)
        THEN IF PctLe(contract_amount, estimate, -20) \/ PctGe(contract_amount, estimate, 20)
             THEN add(a1, 8, Reason[8])
             ELSE a1
        ELSE acc

EstimateRules(row, acc) ==
    LET contract_amount == get_numeric(row, "contract_amount")
        estimate == get_numeric(row, "estimatedCost")
    IN  IF Truthy(contract_amount) /\ Truthy(estimate)
        THEN IF PctGe(contract_amount, estimate, 25) THEN add(acc, 10, Reason[7])
             ELSE IF PctLe(contract_amount, estimate, -20) THEN add(acc, 8, Reason[8])
             ELSE acc
        ELSE acc

PaymentRules(row, acc) ==
    LET contract_amount == get_numeric(row, "contract_amount")
        actual_payment == get_numeric(row, "actual_payment_made")
    IN  IF actual_payment # None /\ Truthy(contract_amount)
        THEN IF PctGe(actual_payment, contract_amount, 10) THEN add(acc, 15, Reason[9])
             ELSE IF PctLe(actual_payment, contract_amount, -20) THEN add(acc, 8, Reason[10])
             ELSE acc
        ELSE acc

CompletionRules(row, acc) ==
    LET completion_pct == get_numeric(row, "percentageOfCompletion")
        status == Lower(Strip(StrOf(Get(row, "status", Str(<<>>)))))
        a1 == IF status = Completed /\ Lt(completion_pct, 80) THEN add(acc, 15, Reason[11]) ELSE acc
        a2 == IF status \in {InProgress, Delayed} /\ Ge(completion_pct, 95) THEN add(a1, 8, Reason[12]) ELSE a1
        a3 == IF status = Delayed /\ Lt(completion_pct, 50) THEN add(a2, 10, Reason[13]) ELSE a2
    IN  IF completion_pct # None THEN a3 ELSE acc

FlagRules(row, acc) ==
    LET a1 == IF get_bool(row, "is_red_flag_entity") THEN add(acc, 12, Reason[14]) ELSE acc
    IN  IF get_bool(row, "is_blacklisted_contractor") THEN add(a1, 30, Reason[15]) ELSE a1

MethodRules(row, acc) ==
    LET contract_amount == get_numeric(row, "contract_amount")
        method == Lower(Strip(StrOf(Get(row, "procurement_method", Str(<<>>)))))
        duration_days == get_numeric(row, "contract_duration_days")
        a1 == IF /\ method \in {Direct, Shopping, Rfq}
                 /\ contract_amount # None
                 /\ Ge(contract_amount, 10000000)
              THEN add(acc, 12, Reason[16]) ELSE acc
    IN  IF duration_days # None /\ method \in {Shopping, Rfq} /\ Ge(duration_days, 180)
        THEN add(a1, 6, Reason[17]) ELSE a1

RECURSIVE Join(_, _)
(* sep.join(texts), piece by piece *)
Join(texts, sep) ==
    IF texts = <<>> THEN <<>>
    ELSE IF Len(texts) = 1 THEN <<texts[1]>>
    ELSE <<texts[1], sep>> \o Join(Tail(texts), sep)

score_row(row) ==
    LET acc == MethodRules(row, FlagRules(row, CompletionRules(row, PaymentRules(row,
                 EstimateRules(row, PaymentGapRules(row, VarianceRules(row, BidderRules(row, Fresh))))))))
        trigger_count == Len(acc.reasons)
    IN  [risk_score |-> Num(acc.score),
         risk_level |-> Str(<<risk_level(acc.score)>>),
         risk_reasons |-> Str(IF acc.reasons # <<>> THEN Join(acc.reasons, "; ") ELSE <<NoRedFlags>>),
         risk_triggers |-> Num(trigger_count)]

(***************************************************************************)
(* DataFrames: ordered columns, index labels, one row (column -> cell) per *)
(* index label.  Index labels are unique.                                  *)
(***************************************************************************)
Frame(columns, index, data) == [columns |-> columns, index |-> index, data |-> data]

Range(f) == {f[i] : i \in DOMAIN f}

(* DataFrame.empty: either axis has length 0 *)
Empty(frame) == Len(frame.columns) = 0 \/ Len(frame.index) = 0

ScoreColumns == <<"risk_score", "risk_level", "risk_reasons", "risk_triggers">>

(* the frame of four typed, empty Series *)
empty_scores == Frame(ScoreColumns, <<>>, <<>>)

(* DataFrame.reset_index(drop=True): labels 0..n-1, rows unchanged *)
reset_index(frame) == Frame(frame.columns, [i \in 1..Len(frame.index) |-> i - 1], frame.data)

(* DataFrame.apply(_score_row, axis=1): one Series of four values per row, same index *)
RECURSIVE carried_score(_, _)
(* the points of rows 1..i together *)
carried_score(data, i) == IF i = 0 THEN 0 ELSE carried_score(data, i - 1) + score_row(data[i]).risk_score.n

(* mutant: the score accumulator is set up once for the frame, not once per row *)
apply_score_row_shared(frame) ==
    Frame(ScoreColumns, frame.index,
          [i \in 1..Len(frame.data) |->
              [score_row(frame.data[i]) EXCEPT !.risk_score = Num(carried_score(frame.data, i))]])

apply_score_row(frame) ==
    Frame(ScoreColumns, frame.index, [i \in 1..Len(frame.data) |-> score_row(frame.data[i])])

RECURSIVE Without(_, _)
(* the labels of seq that are not in the set seen, in order *)
Without(seq, seen) ==
    IF seq = <<>> THEN <<>>
    ELSE IF Head(seq) \in seen THEN Without(Tail(seq), seen)
    ELSE <<Head(seq)>> \o Without(Tail(seq), seen)

Position(seq, x) == CHOOSE i \in 1..Len(seq) : seq[i] = x

(* the row of frame at label, NaN in every column where the frame has no such label *)
RowAt(frame, label) ==
    IF label \in Range(frame.index) THEN frame.data[Position(frame.index, label)]
    ELSE [c \in Range(frame.columns) |-> NaNCell]

(* pd.concat([a, b], axis=1): outer join on the index labels, columns side by side *)
concat(a, b) ==
    LET index == a.index \o Without(b.index, Range(a.index))
    IN  Frame(a.columns \o b.columns, index,
              [i \in 1..Len(index) |->
                  LET ra == RowAt(a, index[i])
                      rb == RowAt(b, index[i])
                  IN  [c \in DOMAIN ra \cup DOMAIN rb |-> IF c \in DOMAIN rb THEN rb[c] ELSE ra[c]]])

(* mutant: the input keeps its index labels while the scores are renumbered *)
score_risk_keep_index(frame) ==
    IF Empty(frame) THEN concat(frame, empty_scores)
    ELSE concat(frame, reset_index(apply_score_row(frame)))

(* mutant: an empty input is returned as it is *)
score_risk_return_input(frame) ==
    IF Empty(frame) THEN frame
    ELSE concat(reset_index(frame), reset_index(apply_score_row(frame)))

score_risk(frame) ==
    IF Empty(frame) THEN concat(frame, empty_scores)
    ELSE concat(reset_index(frame), reset_index(apply_score_row(frame)))

(***************************************************************************)
(* Inputs                                                                  *)
(***************************************************************************)
ScoringColumns == <<"bidder_count", "cost_variance_pct", "payment_discrepancy", "contract_amount",
                    "estimatedCost", "actual_payment_made", "percentageOfCompletion", "status",
                    "is_red_flag_entity", "is_blacklisted_contractor", "procurement_method",
                    "contract_duration_days">>

AllColumns == <<"vendor">> \o ScoringColumns

(* marks, while a row is put together, a column that the frame does not have *)
MissingColumn == [k |-> "missing", n |-> 0, s |-> <<>>]

RECURSIVE Keep(_, _)
(* the columns of seq that are in the set kept, in order *)
Keep(seq, kept) ==
    IF seq = <<>> THEN <<>>
    ELSE IF Head(seq) \in kept THEN <<Head(seq)>> \o Keep(Tail(seq), kept)
    ELSE Keep(Tail(seq), kept)

(* the row over the columns that are there, with its vendor cell *)
MakeRow(fields, vendor) ==
    [c \in {"vendor"} \cup {f \in DOMAIN fields : fields[f] # MissingColumn} |->
        IF c = "vendor" THEN vendor ELSE fields[c]]

(* the one-row frame holding row *)
OneRow(row) == Frame(Keep(AllColumns, DOMAIN row), <<0>>, <<row>>)

(* a record on which every rule family fires, and one on which nothing fires *)
Hot ==
    [bidder_count |-> Num(1), cost_variance_pct |-> Num(30), payment_discrepancy |-> Num(-2000000),
     contract_amount |-> Num(10000000), estimatedCost |-> Num(8000000),
     actual_payment_made |-> Num(11000000), percentageOfCompletion |-> Num(40),
     status |-> Str(<<"C","o","m","p","l","e","t","e","d">>),
     is_red_flag_entity |-> Bool(TRUE), is_blacklisted_contractor |-> Bool(TRUE),
     procurement_method |-> Str(<<"R","F","Q">>), contract_duration_days |-> Num(200)]

Calm ==
    [bidder_count |-> Num(10), cost_variance_pct |-> Num(0), payment_discrepancy |-> Num(0),
     contract_amount |-> Num(100), estimatedCost |-> Num(100),
     actual_payment_made |-> Num(100), percentageOfCompletion |-> Num(100),
     status |-> Str(<<"c","o","m","p","l","e","t","e","d">>),
     is_red_flag_entity |-> Bool(FALSE), is_blacklisted_contractor |-> Bool(FALSE),
     procurement_method |-> Str(<<"o","p","e","n">>), contract_duration_days |-> Num(30)]

AllNaN == [c \in Range(ScoringColumns) |-> NaNCell]
AllNone == [c \in Range(ScoringColumns) |-> NoneCell]
AllMissing == [c \in Range(ScoringColumns) |-> MissingColumn]

(* background records, over which groups of columns are varied *)
Backgrounds == {AllMissing, AllNaN, AllNone, Hot, Calm}

Unparseable == Str(<<"n","/","a">>)

BidderCells == {MissingColumn, NaNCell, Unparseable, Str(<<" ","2"," ">>), Num(0), Num(2), Num(3), Num(4), Num(5)}

VarianceCells == {MissingColumn, NoneCell, Unparseable, Str(<<"-","1","5">>), Num(-15), Num(-14), Num(0), Num(14), Num(15)}

PaymentGapCells == {MissingColumn, NaNCell, Str(<<>>), Num(-1000000), Num(-500000), Num(0), Num(499999),
                    Num(500000), Num(999999), Num(1000000)}

AmountCells == {MissingColumn, NaNCell, Unparseable, Str(<<"n","a","n">>), Num(-125), Num(0), Num(80), Num(81),
                Num(100), Num(124), Num(125), Num(9999999), Num(10000000)}

EstimateCells == {MissingColumn, NoneCell, Unparseable, Num(-100), Num(0), Num(100), Str(<<"1","0","0"," ">>)}

ActualCells == {MissingColumn, NaNCell, Unparseable, Num(-110), Num(0), Num(80), Num(81), Num(109), Num(110),
                Num(11000000)}

CompletionCells == {MissingColumn, NaNCell, Unparseable, Num(0), Num(49), Num(50), Num(79), Num(80), Num(94), Num(95)}

StatusCells == {MissingColumn, NaNCell, NoneCell, Str(<<>>),
                Str(<<" ","C","o","m","p","l","e","t","e","d"," ">>),
                Str(<<"i","n","-","p","r","o","g","r","e","s","s">>),
                Str(<<"D","E","L","A","Y","E","D">>),
                Str(<<"o","p","e","n">>)}

FlagCells == {MissingColumn, NoneCell, NaNCell, Bool(TRUE), Bool(FALSE), Num(0), Num(1), Str(<<>>),
              Str(<<" ","Y","e","s"," ">>), Str(<<"y">>), Str(<<"T","R","U","E">>), Str(<<"1">>),
              Str(<<"n","o">>), Str(<<"t","r","u","e","!">>)}

MethodCells == {MissingColumn, NaNCell, Str(<<" ","D","i","r","e","c","t">>), Str(<<"s","h","o","p","p","i","n","g">>),
                Str(<<"R","F","Q"," ">>), Str(<<"o","p","e","n">>)}

DurationCells == {MissingColumn, NoneCell, Unparseable, Num(179), Num(180)}

(* the groups of columns that are varied together over a background *)
Groups ==
    [bidder_count : BidderCells, cost_variance_pct : VarianceCells, payment_discrepancy : PaymentGapCells]
    \cup [is_red_flag_entity : FlagCells, is_blacklisted_contractor : FlagCells]
    \cup [percentageOfCompletion : CompletionCells, status : StatusCells]
    \cup [contract_amount : AmountCells, estimatedCost : EstimateCells, actual_payment_made : ActualCells]
    \cup [contract_amount : AmountCells, procurement_method : MethodCells, contract_duration_days : DurationCells]

(* every rule family at once: for each column a cell that fires no rule and the cells *)
(* that fire each of its rules                                                          *)
Families ==
    [bidder_count : {MissingColumn, Num(2), Num(4)},
     cost_variance_pct : {MissingColumn, Num(15), Num(-15)},
     payment_discrepancy : {MissingColumn, Num(1000000), Num(-500000)},
     contract_amount : {MissingColumn, Num(100), Num(10000000)},
     estimatedCost : {MissingColumn, Num(80)},
     actual_payment_made : {MissingColumn, Num(110), Num(80)},
     percentageOfCompletion : {MissingColumn, Num(40)},
     status : {MissingColumn, Str(<<"c","o","m","p","l","e","t","e","d">>), Str(<<"d","e","l","a","y","e","d">>)},
     is_red_flag_entity : {MissingColumn, Bool(TRUE)},
     is_blacklisted_contractor : {MissingColumn, Bool(TRUE)},
     procurement_method : {MissingColumn, Str(<<"r","f","q">>)},
     contract_duration_days : {MissingColumn, Num(180)}]

Override(background, group) ==
    [c \in DOMAIN background |-> IF c \in DOMAIN group THEN group[c] ELSE background[c]]

(* the two worked records of the specification's section 8 *)
Examples == {
    [[c \in Range(ScoringColumns) |-> MissingColumn] EXCEPT
        !["bidder_count"] = Num(1), !["cost_variance_pct"] = Num(30),
        !["is_blacklisted_contractor"] = Bool(TRUE)],
    [[c \in Range(ScoringColumns) |-> MissingColumn] EXCEPT
        !["bidder_count"] = Num(3), !["cost_variance_pct"] = Num(-20),
        !["status"] = Str(<<"d","e","l","a","y","e","d">>), !["percentageOfCompletion"] = Num(40)] }

VendorA == Str(<<"A">>)

Records == {MakeRow(Override(b, g), VendorA) : b \in Backgrounds, g \in Groups}
             \cup {MakeRow(e, VendorA) : e \in Examples}
             \cup {MakeRow(f, VendorA) : f \in Families}

(* a frame of no rows, and a frame of one row and no columns *)
NoRows == Frame(AllColumns, <<>>, <<>>)
NoColumns == Frame(<<>>, <<0>>, << <<>> >>)

(***************************************************************************)
(* Datasets of several records                                             *)
(***************************************************************************)
MaxRows == 3

VendorB == Str(<<"B">>)

(* the columns a dataset may have: all of them, a few of them, only vendor, none *)
ColumnSets == {AllColumns, <<"vendor", "bidder_count", "is_blacklisted_contractor">>, <<"vendor">>, <<>>}

(* the records of a dataset with these columns *)
RecordsOver(columns) ==
    {[c \in Range(columns) |-> r[c]] :
        r \in {MakeRow(AllNaN, VendorA), MakeRow(AllNone, VendorA), MakeRow(Hot, VendorA),
               MakeRow(Calm, VendorA), MakeRow(Calm, VendorB)}}

(* index labels: the default 0..n-1, or the labels left by a filter or a sort *)
Indexes(n) == {[i \in 1..n |-> i - 1], [i \in 1..n |-> 2 * (n - i) + 1]}

DataFrames ==
    UNION {UNION {UNION {{Frame(columns, index, data) : data \in [1..n -> RecordsOver(columns)]} :
        index \in Indexes(n)} : n \in 0..MaxRows} : columns \in ColumnSets}

(***************************************************************************)
(* The state machine: a frame is loaded, score_risk is called on it        *)
(***************************************************************************)
NoFrame == Frame(<<>>, <<>>, <<>>)

Init ==
    /\ df \in {OneRow(r) : r \in Records} \cup {NoRows, NoColumns}
    /\ out = NoFrame
    /\ pc = "loaded"

ScoreRisk ==
    /\ pc = "loaded"
    /\ out' = score_risk(df)
    /\ pc' = "scored"
    /\ UNCHANGED df

Next == ScoreRisk

Spec == Init /\ [][Next]_vars

(***************************************************************************)
(* What the claims speak of                                                *)
(***************************************************************************)
(* the records that _score_row has scored: record i of df, assessed in row i of out *)
Scored == IF pc = "scored" /\ ~Empty(df) THEN 1..Len(df.data) ELSE {}

Score(i) == out.data[i]["risk_score"].n
Level(i) == out.data[i]["risk_level"].s
ReasonText(i) == out.data[i]["risk_reasons"].s
Triggers(i) == out.data[i]["risk_triggers"].n

(* the rules whose reason is listed in the reason text of record i *)
Fired(i) == {n \in 1..17 : Reason[n] \in Range(ReasonText(i))}

(* the number of reasons listed in a reason text *)
ReasonCount(text) == IF text = <<NoRedFlags>> THEN 0 ELSE (Len(text) + 1) \div 2

(* The rule table of the specification (section 4.2), evaluated on the raw *)
(* cells of a record with the extraction rules of section 4.1: a number is *)
(* present when the cell holds a number or text that parses to one; a flag *)
(* is true for a genuine true, a non-zero number or one of the four words; *)
(* text is trimmed and compared without regard to case, absent text is "". *)
Present(row, c) ==
    /\ c \in DOMAIN row
    /\ \/ row[c].k = "num"
       \/ row[c].k = "str" /\ ParseFloat(row[c].s).t = "float"

Value(row, c) == IF row[c].k = "num" THEN row[c].n ELSE ParseFloat(row[c].s).v

Magnitude(x) == IF x < 0 THEN -x ELSE x

IsTrue(row, c) ==
    /\ c \in DOMAIN row
    /\ \/ row[c].k = "bool" /\ row[c].n = 1
       \/ row[c].k = "num" /\ row[c].n # 0
       \/ row[c].k = "str" /\ Lower(Strip(row[c].s)) \in BoolWords

Text(row, c) == IF c \in DOMAIN row /\ row[c].k = "str" THEN Lower(Strip(row[c].s)) ELSE <<>>

(* (x - base) / base * 100 compared with p, base # 0 *)
PctAtLeast(x, base, p) == IF base > 0 THEN 100 * (x - base) >= p * base ELSE 100 * (x - base) <= p * base
PctAtMost(x, base, p) == IF base > 0 THEN 100 * (x - base) <= p * base ELSE 100 * (x - base) >= p * base

HasPctDiff(row) == Present(row, "contract_amount") /\ Present(row, "estimatedCost") /\ Value(row, "estimatedCost") # 0
HasOverpayPct(row) == Present(row, "actual_payment_made") /\ Present(row, "contract_amount") /\ Value(row, "contract_amount") # 0

Holds(n, row) ==
    CASE n = 1 -> Present(row, "bidder_count") /\ Value(row, "bidder_count") <= 2
      [] n = 2 -> Present(row, "bidder_count") /\ Value(row, "bidder_count") > 2 /\ Value(row, "bidder_count") <= 4
      [] n = 3 -> Present(row, "cost_variance_pct") /\ Value(row, "cost_variance_pct") >= 15
      [] n = 4 -> Present(row, "cost_variance_pct") /\ Value(row, "cost_variance_pct") <= -15
      [] n = 5 -> Present(row, "payment_discrepancy") /\ Magnitude(Value(row, "payment_discrepancy")) >= 1000000
      [] n = 6 -> /\ Present(row, "payment_discrepancy")
                  /\ Magnitude(Value(row, "payment_discrepancy")) >= 500000
                  /\ Magnitude(Value(row, "payment_discrepancy")) < 1000000
      [] n = 7 -> HasPctDiff(row) /\ PctAtLeast(Value(row, "contract_amount"), Value(row, "estimatedCost"), 25)
      [] n = 8 -> HasPctDiff(row) /\ PctAtMost(Value(row, "contract_amount"), Value(row, "estimatedCost"), -20)
      [] n = 9 -> HasOverpayPct(row) /\ PctAtLeast(Value(row, "actual_payment_made"), Value(row, "contract_amount"), 10)
      [] n = 10 -> HasOverpayPct(row) /\ PctAtMost(Value(row, "actual_payment_made"), Value(row, "contract_amount"), -20)
      [] n = 11 -> /\ Present(row, "percentageOfCompletion") /\ Text(row, "status") = Completed
                   /\ Value(row, "percentageOfCompletion") < 80
      [] n = 12 -> /\ Present(row, "percentageOfCompletion") /\ Text(row, "status") \in {InProgress, Delayed}
                   /\ Value(row, "percentageOfCompletion") >= 95
      [] n = 13 -> /\ Present(row, "percentageOfCompletion") /\ Text(row, "status") = Delayed
                   /\ Value(row, "percentageOfCompletion") < 50
      [] n = 14 -> IsTrue(row, "is_red_flag_entity")
      [] n = 15 -> IsTrue(row, "is_blacklisted_contractor")
      [] n = 16 -> /\ Text(row, "procurement_method") \in {Direct, Shopping, Rfq}
                   /\ Present(row, "contract_amount") /\ Value(row, "contract_amount") >= 10000000
      [] n = 17 -> /\ Present(row, "contract_duration_days") /\ Text(row, "procurement_method") \in {Shopping, Rfq}
                   /\ Value(row, "contract_duration_days") >= 180

TablePoints == <<20, 10, 15, 10, 20, 12, 10, 8, 15, 8, 15, 8, 10, 12, 30, 12, 6>>

RECURSIVE SumPoints(_)
SumPoints(rules) ==
    IF rules = {} THEN 0
    ELSE LET n == CHOOSE m \in rules : TRUE IN TablePoints[n] + SumPoints(rules \ {n})

Holding(row) == {n \in 1..17 : Holds(n, row)}

(***************************************************************************)
(* C1: for every record of a non-empty dataset, the emitted score is the   *)
(* exact sum of the points of the rules 1-17 whose table condition holds   *)
(* on the record's raw cells, and of no others.                            *)
(***************************************************************************)
C1_ScoreIsTableSum ==
    \A i \in Scored :
        /\ Score(i) = SumPoints(Holding(df.data[i]))
        /\ Fired(i) = Holding(df.data[i])

(***************************************************************************)
(* C2: the emitted level follows from the emitted score by the descending  *)
(* thresholds: >= 70 Critical, 45..69 High, 25..44 Medium, below 25 Low,   *)
(* and no other level is ever produced.                                    *)
(***************************************************************************)
C2_LevelFromScore ==
    \A i \in Scored :
        /\ Level(i) \in {<<"Critical">>, <<"High">>, <<"Medium">>, <<"Low">>}
        /\ Score(i) >= 70 <=> Level(i) = <<"Critical">>
        /\ (Score(i) >= 45 /\ Score(i) < 70) <=> Level(i) = <<"High">>
        /\ (Score(i) >= 25 /\ Score(i) < 45) <=> Level(i) = <<"Medium">>
        /\ Score(i) < 25 <=> Level(i) = <<"Low">>

(* a record whose score sits exactly on the highest threshold *)
C2_Witness ==
    /\ pc = "scored" /\ ~Empty(df)
    /\ Score(1) = 70 /\ Level(1) = <<"Critical">>

(***************************************************************************)
(* C3: the trigger count is the number of fired rules (of reasons, not the *)
(* point total), and "trigger count is 0", "the reason text is exactly     *)
(* No apparent red flags" and "the score is 0" each hold exactly when no   *)
(* rule fired.                                                             *)
(***************************************************************************)
C3_TriggerCount ==
    \A i \in Scored :
        /\ Triggers(i) = Cardinality(Fired(i))
        /\ Triggers(i) = ReasonCount(ReasonText(i))
        /\ Triggers(i) = 0 <=> Fired(i) = {}
        /\ ReasonText(i) = <<NoRedFlags>> <=> Fired(i) = {}
        /\ Score(i) = 0 <=> Fired(i) = {}

(* a record with several reasons whose points differ from their number *)
C3_Witness ==
    /\ pc = "scored" /\ ~Empty(df)
    /\ Triggers(1) = 3 /\ Score(1) = 65

(***************************************************************************)
(* C4: a numeric field that is absent or unparseable is never read as 0:   *)
(* no rule whose condition reads a numeric field fires for a record in     *)
(* which that field is absent (column missing, None, NaN) or unparseable.  *)
(***************************************************************************)
NumericReads == <<
    {"bidder_count"}, {"bidder_count"},
    {"cost_variance_pct"}, {"cost_variance_pct"},
    {"payment_discrepancy"}, {"payment_discrepancy"},
    {"contract_amount", "estimatedCost"}, {"contract_amount", "estimatedCost"},
    {"actual_payment_made", "contract_amount"}, {"actual_payment_made", "contract_amount"},
    {"percentageOfCompletion"}, {"percentageOfCompletion"}, {"percentageOfCompletion"},
    {}, {},
    {"contract_amount"},
    {"contract_duration_days"} >>

C4_AbsentNeverZero ==
    \A i \in Scored : \A n \in 1..17 : \A c \in NumericReads[n] :
        ~Present(df.data[i], c) => n \notin Fired(i)

(* bidder count and completion are unparseable text where 0 would fire rules 1 and 11, *)
(* and the record is assessed with other rules firing                                  *)
C4_Witness ==
    /\ pc = "scored" /\ ~Empty(df)
    /\ "percentageOfCompletion" \in DOMAIN df.data[1]
    /\ df.data[1]["percentageOfCompletion"] = Unparseable
    /\ Text(df.data[1], "status") = Completed
    /\ Fired(1) # {} /\ 11 \notin Fired(1)

(***************************************************************************)
(* C5: boolean extraction defaults to false: when is_red_flag_entity       *)
(* (is_blacklisted_contractor) is absent, a missing/null cell or text      *)
(* outside {true, 1, yes, y}, rule 14 (15) does not fire; it fires only    *)
(* for a genuine true, a non-zero number or one of the four words.         *)
(***************************************************************************)
C5_BoolDefaultsFalse ==
    \A i \in Scored :
        /\ 14 \in Fired(i) => IsTrue(df.data[i], "is_red_flag_entity")
        /\ 15 \in Fired(i) => IsTrue(df.data[i], "is_blacklisted_contractor")

(***************************************************************************)
(* C6: when contract amount and estimated cost are both present and the    *)
(* estimate is not 0, whatever the contract amount, rule 7 contributes 10  *)
(* points exactly when pctDiff >= 25 and rule 8 contributes 8 points       *)
(* exactly when pctDiff <= -20.                                            *)
(***************************************************************************)
DropColumn(row, c) == [d \in DOMAIN row \ {c} |-> row[d]]

(* what the estimate adds to the score of record i: it feeds rules 7 and 8 only *)
EstimateContribution(i) == Score(i) - score_row(DropColumn(df.data[i], "estimatedCost")).risk_score.n

C6_EstimateRules ==
    \A i \in Scored :
        LET row == df.data[i]
            above == PctAtLeast(Value(row, "contract_amount"), Value(row, "estimatedCost"), 25)
            below == PctAtMost(Value(row, "contract_amount"), Value(row, "estimatedCost"), -20)
        IN  HasPctDiff(row) =>
              /\ 7 \in Fired(i) <=> above
              /\ 8 \in Fired(i) <=> below
              /\ EstimateContribution(i) = IF above THEN 10 ELSE IF below THEN 8 ELSE 0

(***************************************************************************)
(* C7: zero denominators suppress the ratio rules silently: with an        *)
(* estimated cost of 0 neither rule 7 nor 8 fires, with a contract amount  *)
(* of 0 neither rule 9 nor 10 fires; in both cases the record is assessed  *)
(* completely and every other rule fires exactly when its condition holds. *)
(***************************************************************************)
IsZero(row, c) == Present(row, c) /\ Value(row, c) = 0

Assessed(i) ==
    /\ Range(ScoreColumns) \subseteq DOMAIN out.data[i]
    /\ out.data[i]["risk_score"].k = "num"
    /\ out.data[i]["risk_triggers"].k = "num"
    /\ out.data[i]["risk_level"].k = "str"
    /\ out.data[i]["risk_reasons"].k = "str"

C7_ZeroDenominators ==
    \A i \in Scored :
        LET row == df.data[i]
        IN  /\ IsZero(row, "estimatedCost") =>
                /\ Fired(i) \cap {7, 8} = {}
                /\ Assessed(i)
                /\ \A n \in (1..17) \ {7, 8} : n \in Fired(i) <=> Holds(n, row)
            /\ IsZero(row, "contract_amount") =>
                /\ Fired(i) \cap {9, 10} = {}
                /\ Assessed(i)
                /\ \A n \in (1..17) \ {9, 10} : n \in Fired(i) <=> Holds(n, row)

(* the part of C7 that the code keeps: the suppression itself, and a complete assessment *)
C7_SuppressionOnly ==
    \A i \in Scored :
        /\ IsZero(df.data[i], "estimatedCost") => Fired(i) \cap {7, 8} = {} /\ Assessed(i)
        /\ IsZero(df.data[i], "contract_amount") => Fired(i) \cap {9, 10} = {} /\ Assessed(i)

(***************************************************************************)
(* C10: in a dataset with at least one record, a record all of whose       *)
(* scoring fields are absent gets score 0, level Low, the reason text      *)
(* No apparent red flags and trigger count 0.                              *)
(***************************************************************************)
AllAbsent(row) == \A c \in Range(ScoringColumns) : c \in DOMAIN row => row[c].k \in {"None", "nan"}

C10_AbsentRecordIsClean ==
    \A i \in Scored :
        AllAbsent(df.data[i]) =>
            /\ out.data[i]["risk_score"] = Num(0)
            /\ out.data[i]["risk_level"] = Str(<<"Low">>)
            /\ out.data[i]["risk_reasons"] = Str(<<NoRedFlags>>)
            /\ out.data[i]["risk_triggers"] = Num(0)

(* score_risk on datasets of up to MaxRows records *)
InitData ==
    /\ df \in DataFrames
    /\ out = NoFrame
    /\ pc = "loaded"

SpecData == InitData /\ [][Next]_vars

(***************************************************************************)
(* C8: score_risk returns as many records as it was given, in the same     *)
(* order, each keeping every original field with its original value and    *)
(* gaining only the four derived fields; the input dataset is not modified.*)
(***************************************************************************)
SameRecords ==
    /\ Len(out.index) = Len(df.index)
    /\ Len(out.data) = Len(df.data)
    /\ out.columns = df.columns \o ScoreColumns
    /\ \A i \in 1..Len(df.data) :
          /\ DOMAIN out.data[i] = DOMAIN df.data[i] \cup Range(ScoreColumns)
          /\ \A c \in DOMAIN df.data[i] : out.data[i][c] = df.data[i][c]

C8_FrameEffect == [][(pc = "loaded" /\ pc' = "scored") => (df' = df /\ SameRecords')]_vars

(* three records, not all alike, under labels that are not 0..n-1, have been scored *)
C8_Witness ==
    /\ pc = "scored" /\ Len(df.data) = 3 /\ df.index # <<0, 1, 2>>
    /\ df.data[1] # df.data[2] /\ df.data[2] = df.data[3]
    /\ ~Empty(df) /\ Len(out.data) = 3

(***************************************************************************)
(* C9: scoring a dataset of zero records returns zero rows that still      *)
(* declare the four derived columns alongside the input's own columns.     *)
(***************************************************************************)
C9_EmptyDataset ==
    (pc = "scored" /\ Len(df.index) = 0) =>
        /\ out.index = <<>> /\ out.data = <<>>
        /\ out.columns = df.columns \o ScoreColumns
        /\ \A i \in 1..Len(ScoreColumns) : ScoreColumns[i] \in Range(out.columns)

(* a dataset with columns and no records has been scored *)
C9_Witness ==
    /\ pc = "scored" /\ Len(df.index) = 0 /\ df.columns = AllColumns
    /\ Len(out.columns) = Len(AllColumns) + 4

(***************************************************************************)
(* C11: the assessment of a record depends on that record's own fields     *)
(* only: it is the assessment the record gets when it is scored alone,     *)
(* whatever its position and its neighbours, and records with identical    *)
(* fields get identical assessments; nothing is carried from one record's  *)
(* evaluation, or from one call, to the next.                              *)
(***************************************************************************)
Assessment(i) == [c \in Range(ScoreColumns) |-> out.data[i][c]]

(* the assessment score_risk gives to the record when it is the only one of its dataset *)
ScoredAlone(row) ==
    LET single == score_risk(Frame(df.columns, <<0>>, <<row>>))
    IN  [c \in Range(ScoreColumns) |-> single.data[1][c]]

NumericColumns == {"bidder_count", "cost_variance_pct", "payment_discrepancy", "contract_amount",
                   "estimatedCost", "actual_payment_made", "percentageOfCompletion",
                   "contract_duration_days"}

FlagColumns == {"is_red_flag_entity", "is_blacklisted_contractor"}

RECURSIVE ReasonsFrom(_, _)
(* the reasons of the rules n..17 that are in the set, in table order *)
ReasonsFrom(n, rules) ==
    IF n > 17 THEN <<>>
    ELSE (IF n \in rules THEN <<Reason[n]>> ELSE <<>>) \o ReasonsFrom(n + 1, rules)

RECURSIVE Separated(_)
Separated(list) == IF Len(list) <= 1 THEN list ELSE <<Head(list), "; ">> \o Separated(Tail(list))

C13_ReasonsInTableOrder ==
    \A i \in Scored :
        Fired(i) # {} =>
            /\ ReasonText(i) = Separated(ReasonsFrom(1, Fired(i)))
            /\ Score(i) = SumPoints(Fired(i))

(* a record that fires the first rule, the last rule and rules in between *)
C13_Witness ==
    /\ pc = "scored" /\ ~Empty(df)
    /\ {1, 17} \subseteq Fired(1) /\ Cardinality(Fired(1)) >= 4
    /\ ReasonText(1)[1] = Reason[1] /\ ReasonText(1)[2] = "; "

(***************************************************************************)
(* C14: for every record at most one of rules 7 and 8 fires and at most    *)
(* one of rules 9 and 10; a single check never contributes more than one   *)
(* (points, reason) pair, so no reason is listed twice.                    *)
(***************************************************************************)
C14_ExclusivePairs ==
    \A i \in Scored :
        /\ ~({7, 8} \subseteq Fired(i))
        /\ ~({9, 10} \subseteq Fired(i))
        /\ \A a, b \in DOMAIN ReasonText(i) :
              (a # b /\ ReasonText(i)[a] = ReasonText(i)[b]) => ReasonText(i)[a] = "; "
        /\ Triggers(i) = Cardinality(Fired(i))

(* both ratio checks act on one record: the award is 25% above the estimate and the *)
(* payments lag the contract amount                                                 *)
C14_Witness ==
    /\ pc = "scored" /\ ~Empty(df)
    /\ HasPctDiff(df.data[1]) /\ HasOverpayPct(df.data[1])
    /\ Fired(1) \cap {7, 8, 9, 10} = {7, 10}

(***************************************************************************)
(* C15: for every record the score is an integer-valued number between 0   *)
(* and 155 and the trigger count is at most 10, because in each of the     *)
(* groups {1,2}, {3,4}, {5,6}, {7,8}, {9,10}, {11,12,13} at most one rule  *)
(* fires; so Critical takes at least 3 fired rules and High at least 2.    *)
(***************************************************************************)
RuleGroups == {{1, 2}, {3, 4}, {5, 6}, {7, 8}, {9, 10}, {11, 12, 13}}

C15_ScoreBounds ==
    \A i \in Scored :
        /\ out.data[i]["risk_score"].k = "num"
        /\ Score(i) \in 0..155
        /\ Triggers(i) \in 0..10
        /\ \A g \in RuleGroups : Cardinality(Fired(i) \cap g) <= 1
        /\ Level(i) = <<"Critical">> => Cardinality(Fired(i)) >= 3
        /\ Level(i) = <<"High">> => Cardinality(Fired(i)) >= 2

(* the bounds are attained: one rule of every group and rules 14 to 17 fire *)
C15_Witness ==
    /\ pc = "scored" /\ ~Empty(df)
    /\ Score(1) = 155 /\ Triggers(1) = 10 /\ Level(1) = <<"Critical">>

====
